---- MODULE Spec2Model ----
(***************************************************************************)
(* Model of Installer.run (packages/installer/src/installer.ts): the       *)
(* lifecycle-hook sequencing, the step dispatch and the error control flow *)
(* of the installer.  Every `await` of run is a suspension point: the      *)
(* awaited operation is put in flight by one action and settled (resolved  *)
(* or rejected) by another.  `trace` is the history of one run: the calls  *)
(* run makes, the settlements it observes and the lines it logs.           *)
(***************************************************************************)
EXTENDS Integers, Sequences, FiniteSets, TLC

\* ---------------------------------------------------------------- bounds
MaxSteps == 2
MaxRuns == 2

\* ------------------------------------------------------------ vocabulary
Hooks == {"validateArgs", "preInstall", "beforeEach", "afterEach", "postInstall"}

Executors == {"fileTransformExecutor", "addDependencyExecutor", "newFileExecutor"}

NoExecutor == "none"

CliArgs == {"argsA", "argsB"}

NoArgs == "unset"

\* A step carries its stepId and the set of executors whose type predicate
\* accepts it.  The three predicates are mutually exclusive over the kinds
\* of step an Installer is given; "zz" is a step of no known kind.
StepPool ==
  { [stepId |-> "ft", matches |-> {"fileTransformExecutor"}],
    [stepId |-> "ad", matches |-> {"addDependencyExecutor"}],
    [stepId |-> "nf", matches |-> {"newFileExecutor"}],
    [stepId |-> "zz", matches |-> {}] }

\* steps on which the predicates overlap
OverlapPool ==
  { [stepId |-> "ft+ad", matches |-> {"fileTransformExecutor", "addDependencyExecutor"}],
    [stepId |-> "ft+nf", matches |-> {"fileTransformExecutor", "newFileExecutor"}],
    [stepId |-> "ad+nf", matches |-> {"addDependencyExecutor", "newFileExecutor"}],
    [stepId |-> "all", matches |-> Executors] }

StepListsOf(pool) == UNION { [1..n -> pool] : n \in 0..MaxSteps }

StepLists == StepListsOf(StepPool)

VARIABLES steps, options, cliArgs, pc, i, inflight, trace, outcome, runs

vars == <<steps, options, cliArgs, pc, i, inflight, trace, outcome, runs>>

\* ------------------------------------------------------------- helpers
Ev(t, o, k, a) == [type |-> t, op |-> o, i |-> k, args |-> a]

Op(o, k) == [op |-> o, i |-> k]

isFileTransformExecutor(step) == "fileTransformExecutor" \in step.matches

isAddDependencyExecutor(step) == "addDependencyExecutor" \in step.matches

isNewFileExecutor(step) == "newFileExecutor" \in step.matches

HookPresentAlways(h) == TRUE

\* `if (this.options.<hook>)` of the five private wrappers
HookPresent(h) == h \in options

WrapperArgsAfterEachBare(h, k) ==
  CASE h = "validateArgs" -> <<cliArgs>>
    [] h = "preInstall" -> <<>>
    [] h = "beforeEach" -> <<steps[k].stepId>>
    [] h = "afterEach" -> <<>>
    [] h = "postInstall" -> <<>>

\* the arguments run passes at each call site of a private wrapper
WrapperArgs(h, k) ==
  CASE h = "validateArgs" -> <<cliArgs>>
    [] h = "preInstall" -> <<>>
    [] h = "beforeEach" -> <<steps[k].stepId>>
    [] h = "afterEach" -> <<steps[k].stepId>>
    [] h = "postInstall" -> <<>>

\* the arguments each wrapper hands on to the caller-supplied hook
HookArgs(h, wargs) == IF h \in {"preInstall", "postInstall"} THEN <<>> ELSE wargs

DispatchFallsThrough(step) ==
  IF isFileTransformExecutor(step) THEN "fileTransformExecutor"
  ELSE IF isAddDependencyExecutor(step) THEN "addDependencyExecutor"
  ELSE "newFileExecutor"

DispatchSwapped(step) ==
  IF isFileTransformExecutor(step) THEN "fileTransformExecutor"
  ELSE IF isAddDependencyExecutor(step) THEN "newFileExecutor"
  ELSE IF isNewFileExecutor(step) THEN "addDependencyExecutor"
  ELSE NoExecutor

DispatchNewFileFirst(step) ==
  IF isNewFileExecutor(step) THEN "newFileExecutor"
  ELSE IF isAddDependencyExecutor(step) THEN "addDependencyExecutor"
  ELSE IF isFileTransformExecutor(step) THEN "fileTransformExecutor"
  ELSE NoExecutor

\* the if / else-if chain of run: the executor a step is dispatched to
Dispatch(step) ==
  IF isFileTransformExecutor(step) THEN "fileTransformExecutor"
  ELSE IF isAddDependencyExecutor(step) THEN "addDependencyExecutor"
  ELSE IF isNewFileExecutor(step) THEN "newFileExecutor"
  ELSE NoExecutor

SuspendedExceptConfirmation == (inflight \ {Op("waitForConfirmation", 0)}) # {}

SuspendedNever == FALSE

\* `await`: run does not go on while the operation it awaits is pending
Suspended == inflight # {}

HandlerNoReturn(o) ==
  IF o = "validateArgs"
  THEN [logged |-> 1, pc |-> "preInstall", outcome |-> "none"]
  ELSE [logged |-> 0, pc |-> "done", outcome |-> "threw"]

HandlerSilent(o) ==
  IF o = "validateArgs"
  THEN [logged |-> 0, pc |-> "done", outcome |-> "returned"]
  ELSE [logged |-> 0, pc |-> "done", outcome |-> "threw"]

HandlerWideTry(o) ==
  IF o \in {"validateArgs", "preInstall"}
  THEN [logged |-> 1, pc |-> "done", outcome |-> "returned"]
  ELSE [logged |-> 0, pc |-> "done", outcome |-> "threw"]

HandlerSkipsFailedExecutor(o) ==
  IF o = "validateArgs"
  THEN [logged |-> 1, pc |-> "done", outcome |-> "returned"]
  ELSE IF o \in Executors
  THEN [logged |-> 0, pc |-> "afterEach", outcome |-> "none"]
  ELSE [logged |-> 0, pc |-> "done", outcome |-> "threw"]

HandlerSkipsFailedBeforeEach(o) ==
  IF o = "validateArgs"
  THEN [logged |-> 1, pc |-> "done", outcome |-> "returned"]
  ELSE IF o = "beforeEach"
  THEN [logged |-> 0, pc |-> "logExecutorFrontmatter", outcome |-> "none"]
  ELSE [logged |-> 0, pc |-> "done", outcome |-> "threw"]

HandlerSwallowsPostInstall(o) ==
  IF o = "validateArgs"
  THEN [logged |-> 1, pc |-> "done", outcome |-> "returned"]
  ELSE IF o = "postInstall"
  THEN [logged |-> 0, pc |-> "success", outcome |-> "none"]
  ELSE [logged |-> 0, pc |-> "done", outcome |-> "threw"]

HandlerSwallowsAfterEach(o) ==
  IF o = "validateArgs"
  THEN [logged |-> 1, pc |-> "done", outcome |-> "returned"]
  ELSE IF o = "afterEach"
  THEN [logged |-> 0, pc |-> "for", outcome |-> "none"]
  ELSE [logged |-> 0, pc |-> "done", outcome |-> "threw"]

HandlerCatchesConfirmation(o) ==
  IF o \in {"validateArgs", "waitForConfirmation"}
  THEN [logged |-> 1, pc |-> "done", outcome |-> "returned"]
  ELSE [logged |-> 0, pc |-> "done", outcome |-> "threw"]

HandlerRethrows(o) ==
  IF o = "validateArgs"
  THEN [logged |-> 1, pc |-> "done", outcome |-> "threw"]
  ELSE [logged |-> 0, pc |-> "done", outcome |-> "threw"]

HandlerRetriesExecutor(o) ==
  IF o = "validateArgs"
  THEN [logged |-> 1, pc |-> "done", outcome |-> "returned"]
  ELSE IF o \in Executors
  THEN [logged |-> 0, pc |-> "dispatch", outcome |-> "none"]
  ELSE [logged |-> 0, pc |-> "done", outcome |-> "threw"]

\* what a rejection of the awaited operation does to run: the try/catch
\* around validateArgs logs the error and returns; nothing else is caught
Handler(o) ==
  IF o = "validateArgs"
  THEN [logged |-> 1, pc |-> "done", outcome |-> "returned"]
  ELSE [logged |-> 0, pc |-> "done", outcome |-> "threw"]

\* a wrapper whose hook is absent returns without calling anything, so its
\* promise can only resolve
CanReject(o) == o \in Hooks => HookPresent(o)

\* ------------------------------------------------------------------ Init
Init ==
  /\ steps \in StepLists
  /\ options \in SUBSET Hooks
  /\ cliArgs = NoArgs
  /\ pc = "idle"
  /\ i = 0
  /\ inflight = {}
  /\ trace = <<>>
  /\ outcome = "none"
  /\ runs = 0

\* --------------------------------------------------------------- actions
\* calling a private wrapper: the wrapper is in flight until it settles,
\* and it calls the hook of the options if there is one
CallWrapper(h, k, next) ==
  /\ trace' = trace \o <<Ev("call", h, k, WrapperArgs(h, k))>>
                    \o (IF HookPresent(h)
                        THEN <<Ev("hook", h, k, HookArgs(h, WrapperArgs(h, k)))>>
                        ELSE <<>>)
  /\ inflight' = inflight \cup {Op(h, k)}
  /\ pc' = next

RunKeepsProgress(a) ==
  /\ pc \in {"idle", "done"}
  /\ runs < MaxRuns
  /\ runs' = runs + 1
  /\ cliArgs' = a
  /\ i' = i
  /\ outcome' = "none"
  /\ trace' = <<Ev("log", "displayFrontmatter", 0, <<>>),
                Ev("call", "waitForConfirmation", 0, <<"Press enter to begin installation">>)>>
  /\ inflight' = {Op("waitForConfirmation", 0)}
  /\ pc' = "validateArgs"
  /\ UNCHANGED <<steps, options>>

\* run(cliArgs) up to the await of displayFrontmatter
Run(a) ==
  /\ pc \in {"idle", "done"}
  /\ runs < MaxRuns
  /\ runs' = runs + 1
  /\ cliArgs' = a
  /\ i' = 0
  /\ outcome' = "none"
  /\ trace' = <<Ev("log", "displayFrontmatter", 0, <<>>),
                Ev("call", "waitForConfirmation", 0, <<"Press enter to begin installation">>)>>
  /\ inflight' = {Op("waitForConfirmation", 0)}
  /\ pc' = "validateArgs"
  /\ UNCHANGED <<steps, options>>

CallValidateArgs ==
  /\ pc = "validateArgs"
  /\ ~Suspended
  /\ CallWrapper("validateArgs", 0, "preInstall")
  /\ UNCHANGED <<steps, options, cliArgs, i, outcome, runs>>

CallPreInstall ==
  /\ pc = "preInstall"
  /\ ~Suspended
  /\ CallWrapper("preInstall", 0, "for")
  /\ UNCHANGED <<steps, options, cliArgs, i, outcome, runs>>

\* the head of `for (const step of this.steps)` and the newline
ForNext ==
  /\ pc = "for"
  /\ ~Suspended
  /\ IF i < Len(steps)
     THEN /\ i' = i + 1
          /\ trace' = trace \o <<Ev("log", "newline", i + 1, <<>>)>>
          /\ pc' = "beforeEach"
     ELSE /\ pc' = "postInstall"
          /\ UNCHANGED <<i, trace>>
  /\ UNCHANGED <<steps, options, cliArgs, inflight, outcome, runs>>

CallBeforeEach ==
  /\ pc = "beforeEach"
  /\ ~Suspended
  /\ CallWrapper("beforeEach", i, "logExecutorFrontmatter")
  /\ UNCHANGED <<steps, options, cliArgs, i, outcome, runs>>

LogExecutorFrontmatterOnMatchOnly ==
  /\ pc = "logExecutorFrontmatter"
  /\ ~Suspended
  /\ trace' = trace \o (IF steps[i].matches = {}
                        THEN <<>>
                        ELSE <<Ev("log", "logExecutorFrontmatter", i, <<steps[i]>>)>>)
  /\ pc' = "dispatch"
  /\ UNCHANGED <<steps, options, cliArgs, i, inflight, outcome, runs>>

LogExecutorFrontmatter ==
  /\ pc = "logExecutorFrontmatter"
  /\ ~Suspended
  /\ trace' = trace \o <<Ev("log", "logExecutorFrontmatter", i, <<steps[i]>>)>>
  /\ pc' = "dispatch"
  /\ UNCHANGED <<steps, options, cliArgs, i, inflight, outcome, runs>>

DispatchStep ==
  /\ pc = "dispatch"
  /\ ~Suspended
  /\ LET e == Dispatch(steps[i]) IN
       IF e = NoExecutor
       THEN UNCHANGED <<trace, inflight>>
       ELSE /\ trace' = trace \o <<Ev("call", e, i, <<steps[i], cliArgs>>)>>
            /\ inflight' = inflight \cup {Op(e, i)}
  /\ pc' = "afterEach"
  /\ UNCHANGED <<steps, options, cliArgs, i, outcome, runs>>

CallAfterEach ==
  /\ pc = "afterEach"
  /\ ~Suspended
  /\ CallWrapper("afterEach", i, "for")
  /\ UNCHANGED <<steps, options, cliArgs, i, outcome, runs>>

CallPostInstall ==
  /\ pc = "postInstall"
  /\ ~Suspended
  /\ CallWrapper("postInstall", 0, "success")
  /\ UNCHANGED <<steps, options, cliArgs, i, outcome, runs>>

LogSuccess ==
  /\ pc = "success"
  /\ ~Suspended
  /\ trace' = trace \o <<Ev("log", "newline", 0, <<>>), Ev("log", "success", 0, <<>>)>>
  /\ pc' = "done"
  /\ outcome' = "returned"
  /\ UNCHANGED <<steps, options, cliArgs, i, inflight, runs>>

\* the awaited operation resolves; run resumes at pc
Resolve(o) ==
  /\ o \in inflight
  /\ inflight' = inflight \ {o}
  /\ trace' = trace \o <<Ev("resolve", o.op, o.i, <<>>)>>
  /\ UNCHANGED <<steps, options, cliArgs, pc, i, outcome, runs>>

\* the awaited operation rejects (or the hook throws): the error is thrown
\* into run at the await
Reject(o) ==
  /\ o \in inflight
  /\ CanReject(o.op)
  /\ inflight' = inflight \ {o}
  /\ LET h == Handler(o.op) IN
       /\ trace' = trace \o <<Ev("reject", o.op, o.i, <<>>)>>
                         \o [n \in 1..h.logged |-> Ev("log", "error", 0, <<>>)]
       /\ pc' = h.pc
       /\ outcome' = h.outcome
  /\ UNCHANGED <<steps, options, cliArgs, i, runs>>

Next ==
  \/ \E a \in CliArgs : Run(a)
  \/ CallValidateArgs
  \/ CallPreInstall
  \/ ForNext
  \/ CallBeforeEach
  \/ LogExecutorFrontmatter
  \/ DispatchStep
  \/ CallAfterEach
  \/ CallPostInstall
  \/ LogSuccess
  \/ \E o \in inflight : Resolve(o)
  \/ \E o \in inflight : Reject(o)

Spec == Init /\ [][Next]_vars

\* Installers whose steps may satisfy several type predicates at once
InitOverlap ==
  /\ steps \in StepListsOf(StepPool \cup OverlapPool)
  /\ options \in {{}, Hooks}
  /\ cliArgs = NoArgs
  /\ pc = "idle"
  /\ i = 0
  /\ inflight = {}
  /\ trace = <<>>
  /\ outcome = "none"
  /\ runs = 0

SpecOverlap == InitOverlap /\ [][Next]_vars

\* what happens once run has been called: the event loop resumes run when
\* the operation it awaits has settled, and that operation settles
Progress ==
  \/ CallValidateArgs
  \/ CallPreInstall
  \/ ForNext
  \/ CallBeforeEach
  \/ LogExecutorFrontmatter
  \/ DispatchStep
  \/ CallAfterEach
  \/ CallPostInstall
  \/ LogSuccess
  \/ \E o \in inflight : Resolve(o)
  \/ \E o \in inflight : Reject(o)

FairSpec == Spec /\ WF_vars(Progress)

TypeOK ==
  /\ steps \in StepLists
  /\ options \subseteq Hooks
  /\ cliArgs \in CliArgs \cup {NoArgs}
  /\ i \in 0..Len(steps)
  /\ outcome \in {"none", "returned", "threw"}
  /\ runs \in 0..MaxRuns

\* ------------------------------------------------- reading the history
Idx(t, o) == { k \in DOMAIN trace : trace[k].type = t /\ trace[k].op = o }

IdxAt(t, o, j) == { k \in Idx(t, o) : trace[k].i = j }

Happened(t, o) == Idx(t, o) # {}

PerStepOps == {"beforeEach", "afterEach"} \cup Executors

\* calls run makes after the validation phase
LaterCalls ==
  { k \in DOMAIN trace : /\ trace[k].type \in {"call", "hook"}
                         /\ trace[k].op \in PerStepOps \cup {"preInstall", "postInstall"} }

LoopCalls ==
  { k \in DOMAIN trace : trace[k].type \in {"call", "hook"} /\ trace[k].op \in PerStepOps }

NothingRaised == \A k \in DOMAIN trace : trace[k].type # "reject"

Completed == pc = "done" /\ outcome = "returned" /\ Happened("log", "success")

IsWrapperCallOfEach(e) == e.type = "call" /\ e.op \in {"beforeEach", "afterEach"}

IsHookCallOfEach(e) == e.type = "hook" /\ e.op \in {"beforeEach", "afterEach"}

IsExecutorCall(e) == e.type = "call" /\ e.op \in Executors

\* C1: if validateArgs raises or rejects, neither preInstall nor any
\* beforeEach, afterEach, executor or postInstall is invoked in that run, and
\* run returns normally instead of propagating the error.
C1_ValidateRejectStops ==
  Happened("reject", "validateArgs") =>
    /\ LaterCalls = {}
    /\ pc = "done"
    /\ outcome = "returned"

C1_Witness ==
  /\ Happened("reject", "validateArgs")
  /\ Len(steps) = MaxSteps
  /\ options = Hooks
  /\ pc = "done"

\* C2: in a run of N steps where nothing raises, the beforeEach and afterEach
\* wrappers are each called exactly N times, alternating
\* beforeEach(1), afterEach(1), ..., beforeEach(N), afterEach(N), and each
\* supplied hook is called with the stepId of its step in the same order.
C2_EachHooksInStepOrder ==
  (Completed /\ NothingRaised) =>
    /\ SelectSeq(trace, IsWrapperCallOfEach) =
         [k \in 1..(2 * Len(steps)) |->
            Ev("call", IF k % 2 = 1 THEN "beforeEach" ELSE "afterEach", (k + 1) \div 2,
               <<steps[(k + 1) \div 2].stepId>>)]
    /\ LET hooked == SelectSeq(trace, IsHookCallOfEach) IN
         /\ \A k \in DOMAIN hooked : hooked[k].args = <<steps[hooked[k].i].stepId>>
         /\ \A h \in {"beforeEach", "afterEach"} :
              /\ HookPresent(h) => \A j \in 1..Len(steps) : Cardinality(IdxAt("hook", h, j)) = 1
              /\ ~HookPresent(h) => Idx("hook", h) = {}
         /\ \A k \in DOMAIN hooked : \A m \in DOMAIN hooked :
              k < m => \/ hooked[k].i < hooked[m].i
                       \/ hooked[k].i = hooked[m].i /\ hooked[k].op = "beforeEach"
                                                    /\ hooked[m].op = "afterEach"
    /\ \A j \in 1..Len(steps) :
         \A b \in IdxAt("call", "beforeEach", j) : \A a \in IdxAt("call", "afterEach", j) :
           /\ \E r \in IdxAt("resolve", "beforeEach", j) : b < r /\ r < a
           /\ \A b2 \in IdxAt("call", "beforeEach", j + 1) :
                \E r \in IdxAt("resolve", "afterEach", j) : a < r /\ r < b2

C2_Witness ==
  /\ Completed
  /\ NothingRaised
  /\ Len(steps) = MaxSteps
  /\ {"beforeEach", "afterEach"} \subseteq options
  /\ \A j \in 1..Len(steps) : \A k \in 1..Len(steps) : j # k => steps[j].stepId # steps[k].stepId

\* C3: if the executor dispatched for step j raises, afterEach of step j,
\* everything of steps j+1..N and postInstall are never invoked, the executor
\* of step j was invoked once only, and the error propagates out of run.
C3_ExecutorRejectAborts ==
  \A j \in 1..Len(steps) : \A e \in Executors :
    IdxAt("reject", e, j) # {} =>
      /\ IdxAt("call", "afterEach", j) = {}
      /\ IdxAt("hook", "afterEach", j) = {}
      /\ \A k \in LoopCalls : trace[k].i <= j
      /\ Idx("call", "postInstall") = {} /\ Idx("hook", "postInstall") = {}
      /\ Cardinality({ k \in DOMAIN trace : IsExecutorCall(trace[k]) /\ trace[k].i = j }) = 1
      /\ pc = "done"
      /\ outcome = "threw"

C3_Witness ==
  /\ Len(steps) = MaxSteps
  /\ options = Hooks
  /\ \E e \in Executors : IdxAt("reject", e, 1) # {}
  /\ pc = "done"

\* C4: if preInstall raises, run does not catch it: the error propagates,
\* nothing is written to the error log, no beforeEach, executor, afterEach or
\* postInstall is invoked and no success message is emitted.
C4_PreInstallRejectPropagates ==
  Happened("reject", "preInstall") =>
    /\ pc = "done"
    /\ outcome = "threw"
    /\ ~Happened("log", "error")
    /\ ~Happened("log", "success")
    /\ LoopCalls = {}
    /\ Idx("call", "postInstall") = {} /\ Idx("hook", "postInstall") = {}

C4_Witness ==
  /\ Happened("reject", "preInstall")
  /\ Len(steps) = MaxSteps
  /\ options = Hooks

\* C5: if beforeEach raises on step k, then for every earlier step the
\* executor paired with the predicate the step satisfies (none for a step of
\* no known kind) and afterEach were each invoked once and completed, the
\* executor and afterEach of step k and everything of the later steps never
\* ran, postInstall never ran, and the error propagates.
C5_BeforeEachRejectAborts ==
  \A k \in 1..Len(steps) :
    IdxAt("reject", "beforeEach", k) # {} =>
      /\ \A j \in 1..(k - 1) :
           /\ \A e \in Executors :
                /\ Cardinality(IdxAt("call", e, j)) = (IF steps[j].matches = {e} THEN 1 ELSE 0)
                /\ Cardinality(IdxAt("resolve", e, j)) = (IF steps[j].matches = {e} THEN 1 ELSE 0)
           /\ Cardinality(IdxAt("call", "afterEach", j)) = 1
           /\ Cardinality(IdxAt("resolve", "afterEach", j)) = 1
      /\ \A n \in LoopCalls :
           /\ trace[n].i <= k
           /\ trace[n].i = k => trace[n].op = "beforeEach"
      /\ \A j \in k..Len(steps) : IdxAt("log", "logExecutorFrontmatter", j) = {}
      /\ Idx("call", "postInstall") = {} /\ Idx("hook", "postInstall") = {}
      /\ pc = "done"
      /\ outcome = "threw"

C5_Witness ==
  /\ Len(steps) = MaxSteps
  /\ IdxAt("reject", "beforeEach", MaxSteps) # {}
  /\ \A j \in 1..(MaxSteps - 1) : steps[j].matches # {}
  /\ pc = "done"

\* C6: when validateArgs raises, the error is logged exactly once in that
\* run and the success message is never emitted.
C6_ValidateRejectLoggedOnce ==
  Happened("reject", "validateArgs") =>
    /\ Cardinality(Idx("log", "error")) = 1
    /\ ~Happened("log", "success")

C6_Witness ==
  /\ Happened("reject", "validateArgs")
  /\ Happened("log", "error")
  /\ outcome = "returned"
  /\ runs = MaxRuns

\* the dispatch of step j is behind run
Dispatched(j) == j < i \/ (j = i /\ pc \in {"afterEach", "for", "postInstall", "success"})

ExactlyOne(step) == Cardinality(step.matches) = 1

OnlyMatch(step) == CHOOSE e \in step.matches : TRUE

ExpectedExecutorCalls ==
  LET F[j \in 0..Len(steps)] ==
        IF j = 0 THEN <<>>
        ELSE IF steps[j].matches = {} THEN F[j - 1]
        ELSE Append(F[j - 1], Ev("call", OnlyMatch(steps[j]), j, <<steps[j], cliArgs>>))
  IN F[Len(steps)]

\* C7: for a step that satisfies exactly one type predicate, run never
\* invokes another executor than the one paired with that predicate, invokes
\* that one at most once, and has invoked it exactly once with (step, cliArgs)
\* when the dispatch of the step is behind it; in a run where nothing raises
\* the executor invocations are in step order, one per step of a known kind.
C7_DispatchToPairedExecutor ==
  /\ \A j \in 1..Len(steps) :
       ExactlyOne(steps[j]) =>
         /\ \A e \in Executors \ {OnlyMatch(steps[j])} : IdxAt("call", e, j) = {}
         /\ Cardinality(IdxAt("call", OnlyMatch(steps[j]), j)) <= 1
         /\ Dispatched(j) =>
              \E n \in IdxAt("call", OnlyMatch(steps[j]), j) :
                trace[n].args = <<steps[j], cliArgs>>
  /\ (Completed /\ NothingRaised /\ \A j \in 1..Len(steps) : Cardinality(steps[j].matches) <= 1) =>
       SelectSeq(trace, IsExecutorCall) = ExpectedExecutorCalls

C7_Witness ==
  /\ Completed
  /\ NothingRaised
  /\ Len(steps) = MaxSteps
  /\ \A j \in 1..Len(steps) : ExactlyOne(steps[j])
  /\ \E j \in 1..Len(steps) : steps[j].matches = {"newFileExecutor"}
  /\ \E j \in 1..Len(steps) : steps[j].matches = {"addDependencyExecutor"}

\* C8: a step that matches none of the three predicates is skipped silently:
\* no executor is ever invoked for it, an error leaves run only when an
\* awaited operation has rejected, the afterEach of the step is called right
\* after the step's frontmatter is rendered, and a run in which nothing
\* raises calls beforeEach and afterEach for the step and goes on to
\* postInstall and the success message.
C8_DispatchMissIsSilent ==
  /\ outcome = "threw" => trace[Len(trace)].type = "reject"
  /\ \A j \in 1..Len(steps) :
       steps[j].matches = {} =>
         /\ \A n \in DOMAIN trace : ~(IsExecutorCall(trace[n]) /\ trace[n].i = j)
         /\ \A n \in IdxAt("log", "logExecutorFrontmatter", j) :
              /\ IdxAt("call", "beforeEach", j) # {}
              /\ n < Len(trace) => trace[n + 1] = Ev("call", "afterEach", j, <<steps[j].stepId>>)
              /\ n = Len(trace) => pc = "dispatch" \/ (pc = "afterEach" /\ outcome = "none")
         /\ (pc = "done" /\ NothingRaised) =>
              /\ Cardinality(IdxAt("call", "beforeEach", j)) = 1
              /\ Cardinality(IdxAt("call", "afterEach", j)) = 1
              /\ \A m \in (j + 1)..Len(steps) : IdxAt("call", "beforeEach", m) # {}
              /\ Happened("call", "postInstall")
              /\ Completed

C8_Witness ==
  /\ Completed
  /\ Len(steps) = MaxSteps
  /\ steps[1].matches = {}
  /\ options = Hooks

IsCall(e) == e.type = "call"

IsSettle(e) == e.type \in {"resolve", "reject"}

\* C9: within one run at most one of the confirmation prompt, the hooks and
\* the executors is in flight at any moment: run starts an operation only
\* when every operation it started before has settled.
C9_OneInFlight ==
  /\ Cardinality(inflight) <= 1
  /\ \A n \in DOMAIN trace :
       IsCall(trace[n]) =>
         LET before == SubSeq(trace, 1, n - 1) IN
           Len(SelectSeq(before, IsCall)) = Len(SelectSeq(before, IsSettle))
  /\ Len(SelectSeq(trace, IsCall)) = Len(SelectSeq(trace, IsSettle)) + Cardinality(inflight)

C9_Witness ==
  /\ Len(steps) = MaxSteps
  /\ options = Hooks
  /\ \E e \in Executors : inflight = {Op(e, MaxSteps)}

\* C10: in every run the confirmation prompt is invoked exactly once, before
\* anything else, and validateArgs, preInstall, the per-step hooks, the
\* executors and postInstall are invoked only after it has resolved.
C10_ConfirmationFirst ==
  pc # "idle" =>
    /\ Cardinality(Idx("call", "waitForConfirmation")) = 1
    /\ \A n \in DOMAIN trace :
         (trace[n].type \in {"call", "hook"} /\ trace[n].op # "waitForConfirmation") =>
           \E r \in Idx("resolve", "waitForConfirmation") :
             /\ r < n
             /\ \E c \in Idx("call", "waitForConfirmation") : c < r

C10_Witness ==
  /\ Happened("resolve", "waitForConfirmation")
  /\ Happened("reject", "validateArgs")
  /\ runs = MaxRuns

IsHookCall(e) == e.type = "hook" /\ e.op \in Hooks

\* C11: the cliArgs passed to run is the argument of every hook
\* (validateArgs, preInstall, beforeEach, afterEach, postInstall) and the
\* second argument of every executor invoked during that run.
C11_CliArgsToEveryHookAndExecutor ==
  \A n \in DOMAIN trace :
    /\ IsHookCall(trace[n]) => trace[n].args = <<cliArgs>>
    /\ IsExecutorCall(trace[n]) => Len(trace[n].args) = 2 /\ trace[n].args[2] = cliArgs

\* C12: an absent hook is a no-op: a hook that was not supplied is never
\* invoked and its phase never fails (in particular validation, when
\* validateArgs is absent), and a run that ends without anything raising has
\* invoked the executor of every step of a known kind once, in step order,
\* and has emitted the success message.
C12_AbsentHookIsNoOp ==
  /\ \A h \in Hooks \ options :
       /\ Idx("hook", h) = {}
       /\ Idx("reject", h) = {}
       /\ \A n \in Idx("call", h) :
            n < Len(trace) => trace[n + 1] = Ev("resolve", h, trace[n].i, <<>>)
  /\ (pc = "done" /\ NothingRaised) =>
       /\ Completed
       /\ SelectSeq(trace, IsExecutorCall) = ExpectedExecutorCalls
       /\ \A n \in DOMAIN trace : trace[n].type = "hook" => trace[n].op \in options

C12_Witness ==
  /\ Completed
  /\ options = {}
  /\ Len(steps) = MaxSteps
  /\ \A j \in 1..Len(steps) : steps[j].matches # {}

\* C13: postInstall is invoked at most once per run, right after afterEach
\* of the last step has completed (right after preInstall has completed when
\* there are no steps); the success message is emitted only after
\* postInstall has completed; if postInstall raises, the error propagates
\* out of run and the success message is not emitted.
C13_PostInstallLastThenSuccess ==
  /\ Cardinality(Idx("call", "postInstall")) <= 1
  /\ Cardinality(Idx("hook", "postInstall")) <= 1
  /\ \A n \in Idx("call", "postInstall") :
       /\ n > 1
       /\ trace[n - 1] = (IF Len(steps) = 0
                          THEN Ev("resolve", "preInstall", 0, <<>>)
                          ELSE Ev("resolve", "afterEach", Len(steps), <<>>))
  /\ \A n \in Idx("log", "success") :
       \E r \in Idx("resolve", "postInstall") : r < n
  /\ Happened("reject", "postInstall") =>
       /\ ~Happened("log", "success")
       /\ pc = "done"
       /\ outcome = "threw"

C13_Witness ==
  /\ Happened("reject", "postInstall")
  /\ Len(steps) = MaxSteps
  /\ options = Hooks

\* C14: if afterEach raises on step j, the executor of step j (when the step
\* has one) was invoked and has completed before, nothing is invoked for the
\* steps after j, postInstall is not invoked, and the error propagates out
\* of run.
C14_AfterEachRejectAborts ==
  \A j \in 1..Len(steps) :
    IdxAt("reject", "afterEach", j) # {} =>
      /\ \A e \in steps[j].matches :
           Cardinality(steps[j].matches) = 1 =>
             \E c \in IdxAt("call", e, j) : \E r \in IdxAt("resolve", e, j) :
               \E a \in IdxAt("call", "afterEach", j) : c < r /\ r < a
      /\ \A e \in Executors : IdxAt("reject", e, j) = {}
      /\ \A n \in LoopCalls : trace[n].i <= j
      /\ \A m \in (j + 1)..Len(steps) : IdxAt("log", "logExecutorFrontmatter", m) = {}
      /\ Idx("call", "postInstall") = {} /\ Idx("hook", "postInstall") = {}
      /\ pc = "done"
      /\ outcome = "threw"

C14_Witness ==
  /\ Len(steps) = MaxSteps
  /\ IdxAt("reject", "afterEach", 1) # {}
  /\ steps[1].matches # {}
  /\ pc = "done"

\* C15: the frontmatter of a step is rendered at most once, right after the
\* beforeEach of that step has completed and, when the step has an executor,
\* right before that executor is invoked; it has been rendered exactly once
\* when the dispatch of the step is behind run, also for a step that matches
\* no predicate; it is not rendered for a step whose beforeEach raised.
C15_StepFrontmatterOnce ==
  \A j \in 1..Len(steps) :
    LET shown == IdxAt("log", "logExecutorFrontmatter", j) IN
      /\ Cardinality(shown) <= 1
      /\ \A n \in shown :
           /\ trace[n].args = <<steps[j]>>
           /\ n > 1 /\ trace[n - 1] = Ev("resolve", "beforeEach", j, <<>>)
           /\ \A c \in DOMAIN trace :
                (IsExecutorCall(trace[c]) /\ trace[c].i = j) => c = n + 1
      /\ \A c \in DOMAIN trace :
           (IsExecutorCall(trace[c]) /\ trace[c].i = j) => shown # {}
      /\ Dispatched(j) => Cardinality(shown) = 1
      /\ IdxAt("reject", "beforeEach", j) # {} => shown = {}

C15_Witness ==
  /\ Len(steps) = MaxSteps
  /\ steps[1].matches = {}
  /\ steps[MaxSteps].matches # {}
  /\ IdxAt("log", "logExecutorFrontmatter", 1) # {}
  /\ IdxAt("reject", "beforeEach", MaxSteps) # {}

Count(t, o) == Cardinality(Idx(t, o))

FreshRun ==
  /\ trace = <<Ev("log", "displayFrontmatter", 0, <<>>),
               Ev("call", "waitForConfirmation", 0, <<"Press enter to begin installation">>)>>
  /\ inflight = {Op("waitForConfirmation", 0)}
  /\ pc = "validateArgs"
  /\ i = 0
  /\ outcome = "none"

RunsAllAgain ==
  /\ Len(trace) >= 2
  /\ trace[1] = Ev("log", "displayFrontmatter", 0, <<>>)
  /\ trace[2].op = "waitForConfirmation"
  /\ \A n \in LoopCalls :
       trace[n].i > 1 => \E m \in 1..(n - 1) : trace[m] = Ev("resolve", "afterEach", trace[n].i - 1, <<>>)
  /\ Completed =>
       /\ Count("call", "waitForConfirmation") = 1
       /\ Count("call", "validateArgs") = 1
       /\ Count("call", "preInstall") = 1
       /\ Count("call", "postInstall") = 1
       /\ \A h \in options : Idx("hook", h) # {} \/ (h \in {"beforeEach", "afterEach"} /\ steps = <<>>)
       /\ \A j \in 1..Len(steps) :
            /\ Cardinality(IdxAt("call", "beforeEach", j)) = 1
            /\ Cardinality(IdxAt("call", "afterEach", j)) = 1
            /\ Cardinality(IdxAt("log", "logExecutorFrontmatter", j)) = 1
            /\ \A e \in Executors :
                 Cardinality(IdxAt("call", e, j)) = (IF steps[j].matches = {e} THEN 1 ELSE 0)

\* C16: run never changes the steps or the options of the Installer, and it
\* keeps no progress between invocations: whatever state the previous run
\* ended in, a new run starts from the frontmatter and the confirmation with
\* nothing done, and a later run that completes has again run validateArgs,
\* preInstall, every step from the first one, and postInstall.
C16_NoProgressKept ==
  /\ [][/\ steps' = steps
        /\ options' = options
        /\ runs' # runs => (pc \in {"idle", "done"} /\ FreshRun')]_vars
  /\ [](runs >= 2 => RunsAllAgain)

C16_Witness ==
  /\ runs = 2
  /\ Completed
  /\ Len(steps) = MaxSteps
  /\ options = Hooks

\* C17: if the confirmation prompt rejects, the failure is not handled by
\* the validation catch: it propagates out of run, nothing is written to the
\* error log, and validateArgs, preInstall, the per-step hooks, the executors
\* and postInstall are never invoked.
C17_ConfirmationRejectPropagates ==
  Happened("reject", "waitForConfirmation") =>
    /\ pc = "done"
    /\ outcome = "threw"
    /\ ~Happened("log", "error")
    /\ ~Happened("log", "success")
    /\ \A n \in DOMAIN trace :
         trace[n].type \in {"call", "hook"} => trace[n].op = "waitForConfirmation"

C17_Witness ==
  /\ Happened("reject", "waitForConfirmation")
  /\ Len(steps) = MaxSteps
  /\ options = Hooks

Preferred(step) ==
  IF "fileTransformExecutor" \in step.matches THEN "fileTransformExecutor"
  ELSE IF "addDependencyExecutor" \in step.matches THEN "addDependencyExecutor"
  ELSE "newFileExecutor"

\* C18: whatever the three type predicates return for a step, also when two
\* or all three hold, run invokes at most one executor for that step in a
\* run, and the one it invokes is the first in the order file-transform,
\* add-dependency, new-file whose predicate holds.
C18_AtMostOneExecutorByPrecedence ==
  \A j \in 1..Len(steps) :
    LET called == { n \in DOMAIN trace : IsExecutorCall(trace[n]) /\ trace[n].i = j } IN
      /\ Cardinality(called) <= 1
      /\ \A n \in called : steps[j].matches # {} /\ trace[n].op = Preferred(steps[j])
      /\ (Dispatched(j) /\ steps[j].matches # {}) => called # {}

C18_Witness ==
  /\ Len(steps) = MaxSteps
  /\ steps[1].matches = {"addDependencyExecutor", "newFileExecutor"}
  /\ steps[MaxSteps].matches = Executors
  /\ Completed

SuccessOutcome == outcome = "returned" /\ Count("log", "success") = 1 /\ Count("log", "error") = 0

ReportedOutcome == outcome = "returned" /\ Count("log", "error") = 1 /\ Count("log", "success") = 0

ThrownOutcome == outcome = "threw" /\ Count("log", "success") = 0 /\ Count("log", "error") = 0

AllCompleted ==
  /\ NothingRaised
  /\ \A h \in {"validateArgs", "preInstall", "postInstall"} :
       Count("call", h) = 1 /\ Count("resolve", h) = 1
  /\ \A j \in 1..Len(steps) :
       /\ Cardinality(IdxAt("resolve", "beforeEach", j)) = 1
       /\ Cardinality(IdxAt("resolve", "afterEach", j)) = 1
       /\ Cardinality(IdxAt("log", "logExecutorFrontmatter", j)) = 1
       /\ \A e \in Executors :
            Cardinality(IdxAt("call", e, j)) = Cardinality(IdxAt("resolve", e, j))

\* C19: a terminated run has ended in exactly one of three ways: the success
\* message emitted once and a normal return, with validateArgs, preInstall,
\* every step and postInstall completed without raising; the error logged
\* once and a normal return, validateArgs having raised; or an error
\* propagated with neither the success message nor the error log written.
C19_ThreeOutcomes ==
  (pc = "done") =>
    /\ inflight = {}
    /\ \/ SuccessOutcome /\ ~ReportedOutcome /\ ~ThrownOutcome
       \/ ~SuccessOutcome /\ ReportedOutcome /\ ~ThrownOutcome
       \/ ~SuccessOutcome /\ ~ReportedOutcome /\ ThrownOutcome
    /\ SuccessOutcome => AllCompleted
    /\ ReportedOutcome => Happened("reject", "validateArgs")
    /\ ThrownOutcome => trace[Len(trace)].type = "reject" /\ trace[Len(trace)].op # "validateArgs"

C19_Witness ==
  /\ pc = "done"
  /\ ThrownOutcome
  /\ Len(steps) = MaxSteps
  /\ Happened("resolve", "beforeEach")

InvocationsBounded ==
  /\ \A h \in {"waitForConfirmation", "validateArgs", "preInstall", "postInstall"} :
       Count("call", h) <= 1 /\ Count("hook", h) <= 1
  /\ \A j \in 1..Len(steps) :
       /\ \A h \in {"beforeEach", "afterEach"} :
            Cardinality(IdxAt("call", h, j)) <= 1 /\ Cardinality(IdxAt("hook", h, j)) <= 1
       /\ Cardinality({ n \in DOMAIN trace : IsExecutorCall(trace[n]) /\ trace[n].i = j }) <= 1
  /\ \A n \in DOMAIN trace : trace[n].i \in 0..Len(steps)

\* C20: if the confirmation prompt and every invoked hook and executor
\* settle, a run that has started terminates, and it makes at most one
\* validateArgs, one preInstall and one postInstall invocation and at most
\* one beforeEach, one executor and one afterEach invocation per step.
C20_RunTerminates ==
  /\ []InvocationsBounded
  /\ (pc \notin {"idle", "done"}) ~> (pc = "done")

C20_Witness ==
  /\ pc = "done"
  /\ Completed
  /\ Len(steps) = MaxSteps
  /\ options = Hooks
  /\ \A j \in 1..Len(steps) : steps[j].matches # {}

====
